---- MODULE Spec2Model ----
(***************************************************************************)
(* coda-mcp: the tool registry (createMcpServer), its ten tool handlers,   *)
(* and the entry points that bind a registry to a client channel (stdio,   *)
(* Express HTTP/SSE, Vercel serverless).                                    *)
(*                                                                         *)
(* JavaScript values are tagged records.  A string is a sequence of atoms  *)
(* (single characters, or whole words where the code never looks inside).  *)
(* A number is the fraction n/d with d > 0, so that non-integers exist.    *)
(***************************************************************************)
EXTENDS Integers, Sequences, FiniteSets, TLC

\* ------------------------------------------------------------------ bounds
MaxSessions == 2
MaxInv == 1

\* --------------------------------------------------------------- JS values
Undefined == [t |-> "undefined"]
Str(s) == [t |-> "string", s |-> s]
Num(n, d) == [t |-> "number", n |-> n, d |-> d]
\* an object, kept as the sequence of atoms of its JSON members
Obj(o) == [t |-> "object", s |-> o]

\* JavaScript truthiness of undefined | string (the only operands the code tests)
Truthy(v) == v # Undefined /\ (v.t = "string" => Len(v.s) > 0)

\* a ?? b
Coalesce(a, b) == IF a = Undefined THEN b ELSE a

\* ------------------------------------------------------------- zod schemas
zString == [type |-> "string", int |-> FALSE, positive |-> FALSE, optional |-> FALSE]
zStringOptional == [type |-> "string", int |-> FALSE, positive |-> FALSE, optional |-> TRUE]
zIntPositive == [type |-> "number", int |-> TRUE, positive |-> TRUE, optional |-> FALSE]
zIntPositiveOptional == [type |-> "number", int |-> TRUE, positive |-> TRUE, optional |-> TRUE]

ToolNames ==
  { "coda_list_documents", "coda_list_pages", "coda_create_page",
    "coda_get_page_content", "coda_replace_page_content",
    "coda_append_page_content", "coda_duplicate_page", "coda_rename_page",
    "coda_peek_page", "coda_resolve_link" }

\* the raw shape handed to server.tool(name, description, shape, handler)
InputSchema(tool) ==
  CASE tool = "coda_list_documents" -> [query |-> zStringOptional]
    [] tool = "coda_list_pages" ->
         [docId |-> zString, limit |-> zIntPositiveOptional, nextPageToken |-> zStringOptional]
    [] tool = "coda_create_page" ->
         [docId |-> zString, name |-> zString, content |-> zStringOptional,
          parentPageId |-> zStringOptional]
    [] tool = "coda_get_page_content" -> [docId |-> zString, pageIdOrName |-> zString]
    [] tool = "coda_replace_page_content" ->
         [docId |-> zString, pageIdOrName |-> zString, content |-> zString]
    [] tool = "coda_append_page_content" ->
         [docId |-> zString, pageIdOrName |-> zString, content |-> zString]
    [] tool = "coda_duplicate_page" ->
         [docId |-> zString, pageIdOrName |-> zString, newName |-> zString]
    [] tool = "coda_rename_page" ->
         [docId |-> zString, pageIdOrName |-> zString, newName |-> zString]
    [] tool = "coda_peek_page" ->
         [docId |-> zString, pageIdOrName |-> zString, numLines |-> zIntPositive]
    [] tool = "coda_resolve_link" -> [url |-> zString]

\* does the value v pass the field schema z ?
AcceptsNoRange(z, v) ==
  IF v = Undefined THEN z.optional ELSE v.t = z.type

Accepts(z, v) ==
  IF v = Undefined THEN z.optional
  ELSE /\ v.t = z.type
       /\ z.int => v.n % v.d = 0
       /\ z.positive => v.n > 0

\* z.object(shape).safeParse(args) succeeds
Validate(tool, a) ==
  \A f \in DOMAIN InputSchema(tool) : Accepts(InputSchema(tool)[f], a[f])

\* ------------------------------------------------------- results and errors
\* `${error}` : String(error) of a thrown Error / AxiosError
ErrorToString(error) == <<error.name, ": ">> \o error.message

\* new Error(message)
NewError(message) == [name |-> "Error", message |-> message]

\* JSON.stringify(resp.data)
JSONstringify(data) == <<"{">> \o data.s \o <<"}">>

\* { content: [{ type: "text", text }] }
TextResult(text) == [content |-> <<[type |-> "text", text |-> text]>>, isError |-> FALSE]

\* { content: [{ type: "text", text: `Failed to <operation>: ${error}` }], isError: true }
FailedTo(operation, error) ==
  [content |-> <<[type |-> "text",
                  text |-> <<"Failed to ", operation, ": ">> \o ErrorToString(error)]>>,
   isError |-> TRUE]

\* what a handler does next: await a remote call, return a result, or let an
\* exception escape
Call(c) == [k |-> "call", call |-> c]
Return(r) == [k |-> "return", result |-> r]
Throw(e) == [k |-> "throw", error |-> e]

\* --------------------------------------------------- String.prototype.split
Min(a, b) == IF a < b THEN a ELSE b

\* content.split(/\r?\n/) : scan from position i with the current line cur
RECURSIVE SplitFrom(_, _, _)
SplitFrom(s, i, cur) ==
  IF i > Len(s) THEN <<cur>>
  ELSE IF s[i] = "\n" THEN <<cur>> \o SplitFrom(s, i + 1, <<>>)
  ELSE IF s[i] = "\r" /\ i < Len(s) /\ s[i + 1] = "\n"
       THEN <<cur>> \o SplitFrom(s, i + 2, <<>>)
  ELSE SplitFrom(s, i + 1, Append(cur, s[i]))

Split(s) == SplitFrom(s, 1, <<>>)

\* lines.slice(0, n)
Slice(lines, n) == SubSeq(lines, 1, Min(n, Len(lines)))

\* lines.join("\n")
RECURSIVE Join(_)
Join(lines) ==
  IF Len(lines) = 0 THEN <<>>
  ELSE IF Len(lines) = 1 THEN lines[1]
  ELSE lines[1] \o <<"\n">> \o Join(Tail(lines))

\* ------------------------------------------------------------ tool handlers
\* Each handler is given its validated arguments a, the number n of remote
\* calls it has already awaited, and the outcome out of the last one
\* ([kind |-> "ok", data |-> ...] or [kind |-> "throw", error |-> ...]).

coda_list_documents(a, n, out) ==
  IF n = 0 THEN Call([op |-> "listDocs", query |-> a.query])
  ELSE IF out.kind = "throw" THEN Return(FailedTo("list documents", out.error))
  ELSE Return(TextResult(JSONstringify(out.data)))

coda_list_pages(a, n, out) ==
  IF n = 0
  THEN LET listLimit == IF Truthy(a.nextPageToken) THEN Undefined ELSE a.limit
       IN Call([op |-> "listPages", docId |-> a.docId, limit |-> listLimit,
                pageToken |-> Coalesce(a.nextPageToken, Undefined)])
  ELSE IF out.kind = "throw" THEN Return(FailedTo("list pages", out.error))
  ELSE Return(TextResult(JSONstringify(out.data)))

coda_create_page_empty(a, n, out) ==
  IF n = 0
  THEN Call([op |-> "createPage", docId |-> a.docId, name |-> a.name,
             parentPageId |-> Coalesce(a.parentPageId, Undefined),
             pageContent |->
               [type |-> "canvas",
                canvasContent |-> [format |-> "markdown",
                                   content |-> Coalesce(a.content, Str(<<>>))]]])
  ELSE IF out.kind = "throw" THEN Return(FailedTo("create page", out.error))
  ELSE Return(TextResult(JSONstringify(out.data)))

coda_create_page(a, n, out) ==
  IF n = 0
  THEN Call([op |-> "createPage", docId |-> a.docId, name |-> a.name,
             parentPageId |-> Coalesce(a.parentPageId, Undefined),
             pageContent |->
               [type |-> "canvas",
                canvasContent |-> [format |-> "markdown",
                                   content |-> Coalesce(a.content, Str(<<" ">>))]]])
  ELSE IF out.kind = "throw" THEN Return(FailedTo("create page", out.error))
  ELSE Return(TextResult(JSONstringify(out.data)))

coda_get_page_content_nocatch(a, n, out) ==
  IF n = 0
  THEN Call([op |-> "getPageContent", docId |-> a.docId, pageIdOrName |-> a.pageIdOrName])
  ELSE IF out.kind = "throw" THEN Throw(out.error)
  ELSE IF out.data = Undefined THEN Throw(NewError(<<"Unknown error occurred">>))
  ELSE Return(TextResult(out.data.s))

coda_get_page_content(a, n, out) ==
  IF n = 0
  THEN Call([op |-> "getPageContent", docId |-> a.docId, pageIdOrName |-> a.pageIdOrName])
  ELSE IF out.kind = "throw" THEN Return(FailedTo("get page content", out.error))
  ELSE IF out.data = Undefined
       THEN Return(FailedTo("get page content", NewError(<<"Unknown error occurred">>)))
  ELSE Return(TextResult(out.data.s))

coda_replace_page_content_append(a, n, out) ==
  IF n = 0
  THEN Call([op |-> "updatePage", docId |-> a.docId, pageIdOrName |-> a.pageIdOrName,
             body |-> [contentUpdate |->
                         [insertionMode |-> "append", format |-> "markdown",
                          content |-> a.content]]])
  ELSE IF out.kind = "throw" THEN Return(FailedTo("replace page content", out.error))
  ELSE Return(TextResult(JSONstringify(out.data)))

coda_replace_page_content(a, n, out) ==
  IF n = 0
  THEN Call([op |-> "updatePage", docId |-> a.docId, pageIdOrName |-> a.pageIdOrName,
             body |-> [contentUpdate |->
                         [insertionMode |-> "replace", format |-> "markdown",
                          content |-> a.content]]])
  ELSE IF out.kind = "throw" THEN Return(FailedTo("replace page content", out.error))
  ELSE Return(TextResult(JSONstringify(out.data)))

coda_append_page_content(a, n, out) ==
  IF n = 0
  THEN Call([op |-> "updatePage", docId |-> a.docId, pageIdOrName |-> a.pageIdOrName,
             body |-> [contentUpdate |->
                         [insertionMode |-> "append", format |-> "markdown",
                          content |-> a.content]]])
  ELSE IF out.kind = "throw" THEN Return(FailedTo("append page content", out.error))
  ELSE Return(TextResult(JSONstringify(out.data)))

coda_duplicate_page(a, n, out) ==
  IF n = 0
  THEN Call([op |-> "getPageContent", docId |-> a.docId, pageIdOrName |-> a.pageIdOrName])
  ELSE IF out.kind = "throw" THEN Return(FailedTo("duplicate page", out.error))
  ELSE IF n = 1
       THEN Call([op |-> "createPage", docId |-> a.docId, name |-> a.newName,
                  parentPageId |-> Undefined,
                  pageContent |->
                    [type |-> "canvas",
                     canvasContent |-> [format |-> "markdown", content |-> out.data]]])
  ELSE Return(TextResult(JSONstringify(out.data)))

coda_rename_page_touches(a, n, out) ==
  IF n = 0
  THEN Call([op |-> "updatePage", docId |-> a.docId, pageIdOrName |-> a.pageIdOrName,
             body |-> [name |-> a.newName,
                       contentUpdate |->
                         [insertionMode |-> "replace", format |-> "markdown",
                          content |-> a.newName]]])
  ELSE IF out.kind = "throw" THEN Return(FailedTo("rename page", out.error))
  ELSE Return(TextResult(JSONstringify(out.data)))

coda_rename_page_wrongop(a, n, out) ==
  IF n = 0
  THEN Call([op |-> "updatePage", docId |-> a.docId, pageIdOrName |-> a.pageIdOrName,
             body |-> [name |-> a.newName]])
  ELSE IF out.kind = "throw" THEN Return(FailedTo("duplicate page", out.error))
  ELSE Return(TextResult(JSONstringify(out.data)))

coda_rename_page(a, n, out) ==
  IF n = 0
  THEN Call([op |-> "updatePage", docId |-> a.docId, pageIdOrName |-> a.pageIdOrName,
             body |-> [name |-> a.newName]])
  ELSE IF out.kind = "throw" THEN Return(FailedTo("rename page", out.error))
  ELSE Return(TextResult(JSONstringify(out.data)))

coda_peek_page(a, n, out) ==
  IF n = 0
  THEN Call([op |-> "getPageContent", docId |-> a.docId, pageIdOrName |-> a.pageIdOrName])
  ELSE IF out.kind = "throw" THEN Return(FailedTo("peek page", out.error))
  ELSE IF ~Truthy(out.data)
       THEN Return(FailedTo("peek page", NewError(<<"Unknown error has occurred">>)))
  ELSE LET preview == Join(Slice(Split(out.data.s), a.numLines.n \div a.numLines.d))
       IN Return(TextResult(preview))

coda_resolve_link(a, n, out) ==
  IF n = 0 THEN Call([op |-> "resolveBrowserLink", url |-> a.url])
  ELSE IF out.kind = "throw" THEN Return(FailedTo("resolve link", out.error))
  ELSE Return(TextResult(JSONstringify(out.data)))

\* the handler registered under a tool name
Handler(tool, a, n, out) ==
  CASE tool = "coda_list_documents" -> coda_list_documents(a, n, out)
    [] tool = "coda_list_pages" -> coda_list_pages(a, n, out)
    [] tool = "coda_create_page" -> coda_create_page(a, n, out)
    [] tool = "coda_get_page_content" -> coda_get_page_content(a, n, out)
    [] tool = "coda_replace_page_content" -> coda_replace_page_content(a, n, out)
    [] tool = "coda_append_page_content" -> coda_append_page_content(a, n, out)
    [] tool = "coda_duplicate_page" -> coda_duplicate_page(a, n, out)
    [] tool = "coda_rename_page" -> coda_rename_page(a, n, out)
    [] tool = "coda_peek_page" -> coda_peek_page(a, n, out)
    [] tool = "coda_resolve_link" -> coda_resolve_link(a, n, out)

\* ------------------------------------------------------------- entry points
\* index.ts is the stdio entry point; the others are the Express apps
\* (http.ts, part_004, part_005) and the serverless functions (part_000 ..
\* part_003).
Express == {"http.ts", "part_004", "part_005"}
Serverless == {"part_000", "part_001", "part_002", "part_003"}
EntryPoints == {"index.ts"} \cup Express \cup Serverless

\* entry points that connect the module-level `server` of src/server.ts to
\* every transport; the others call createMcpServer() per connection
SharedServer(e) == e \in {"index.ts", "http.ts", "part_005", "part_002", "part_003"}

\* entry points that compare req.query.token with process.env.MCP_AUTH_TOKEN
ChecksToken(e) == e \in {"part_005", "part_001", "part_002"}

\* the tools server.tool() registers on the registry an entry point serves
RegisteredTools(e) ==
  IF e \in {"part_000", "part_001"}
  THEN { "coda_list_documents", "coda_list_pages", "coda_create_page",
         "coda_get_page_content", "coda_replace_page_content",
         "coda_append_page_content", "coda_resolve_link" }
  ELSE ToolNames

\* ------------------------------------------------------------------ inputs
Secret == Str(<<"s3cret">>)
ApiKey == Str(<<"key">>)
QueryTokens == {Undefined, Secret, Str(<<"wrong">>)}
Methods == {"GET", "POST", "OPTIONS", "DELETE"}
\* the URL classes a request can name: the health URL of the entry point
\* ("/" and "/health", or "/api/mcp" and "/api/mcp/health"), the SSE URL, the
\* messages URL, the client-registration URL (the OAuth discovery URLs are
\* answered alike) and the token URL; token is the `token` query parameter.
\* The code looks at the URL of GET and POST requests only, so one URL stands
\* for all with the other methods.
Routes == {"health", "sse", "messages", "register", "token"}
Requests ==
  { r \in [method : Methods, route : Routes, token : QueryTokens] :
      r.method \in {"GET", "POST"} \/ r.route = "sse" }
NoRequest == [method |-> "", route |-> "", token |-> Undefined]

StringArg == {Undefined, Str(<<"x">>)}
AnyArg == {Undefined, Str(<<"x">>), Num(7, 1)}
LimitArg == {Undefined, Num(0, 1), Num(-1, 1), Num(3, 2), Num(2, 1), Str(<<"2">>)}
NumLinesArg ==
  {Undefined, Num(0, 1), Num(-1, 1), Num(3, 2), Num(1, 1), Num(2, 1), Str(<<"2">>)}
TokenArg == {Undefined, Str(<<>>), Str(<<"tok">>)}
ContentArg == {Undefined, Str(<<>>), Str(<<"t">>)}

\* the argument objects a client sends for a tool
ArgsOf(tool) ==
  CASE tool = "coda_list_documents" -> [query : AnyArg]
    [] tool = "coda_list_pages" ->
         [docId : StringArg, limit : LimitArg, nextPageToken : TokenArg]
    [] tool = "coda_create_page" ->
         [docId : StringArg, name : StringArg, content : ContentArg,
          parentPageId : StringArg]
    [] tool = "coda_get_page_content" -> [docId : StringArg, pageIdOrName : StringArg]
    [] tool = "coda_replace_page_content" ->
         [docId : StringArg, pageIdOrName : StringArg, content : ContentArg]
    [] tool = "coda_append_page_content" ->
         [docId : StringArg, pageIdOrName : StringArg, content : ContentArg]
    [] tool = "coda_duplicate_page" ->
         [docId : StringArg, pageIdOrName : StringArg, newName : StringArg]
    [] tool = "coda_rename_page" ->
         [docId : StringArg, pageIdOrName : StringArg, newName : StringArg]
    [] tool = "coda_peek_page" ->
         [docId : StringArg, pageIdOrName : StringArg, numLines : NumLinesArg]
    [] tool = "coda_resolve_link" -> [url : AnyArg]
    [] OTHER -> {[docId |-> Str(<<"x">>)]}

\* the tool names a client may ask for: the documented ten and one that no
\* registry has
ClientTools == ToolNames \cup {"coda_delete_page"}

\* what the remote side can answer (the generated client and the helpers of
\* src/client are the RemoteDocClient: each call may fail with a network, auth
\* or remote-validation error, and a content export may yield no content)
RemoteErrors ==
  { [name |-> "AxiosError", message |-> <<"Request failed with status code 404">>],
    [name |-> "Error", message |-> <<"Network Error">>] }
PageContents ==
  { <<>>, <<"a">>, <<"a", "\n", "b", "\n", "c", "\n", "d">>, <<"a", "\r", "\n", "b">> }
NoOutcome == [kind |-> "none"]

\* outcomes of an awaited remote call: the generated SDK functions are called
\* with throwOnError, getPageContent resolves to string | undefined
Outcomes(call) ==
  {[kind |-> "throw", error |-> e] : e \in RemoteErrors} \cup
  IF call.op = "getPageContent"
  THEN {[kind |-> "ok", data |-> Str(c)] : c \in PageContents} \cup
       {[kind |-> "ok", data |-> Undefined]}
  ELSE {[kind |-> "ok", data |-> Obj(<<call.op, "Response">>)]}

\* -------------------------------------------------------------------- state
VARIABLES
  entry,      \* the entry-point module this process runs
  authToken,  \* process.env.MCP_AUTH_TOKEN
  codaApiToken, \* process.env.CODA_API_TOKEN
  proc,       \* "running", "failed" (exit at startup) or "crashed"
  clientConfig, \* what client.setConfig last wrote, and how many times it wrote
  store,      \* the content of the page a stub RemoteDocClient holds
  servers,    \* server object -> the transport (session id) it sends on, 0 = none;
              \* server 0 is the module-level `server`, server s > 0 the one
              \* createMcpServer() built for session s
  sessions,   \* session id -> [state, server]
  last,       \* the last HTTP request and the response it got
  posts,      \* message id -> the session it was POSTed for and the POST's status
  inv,        \* message id -> the tool invocation as the registry runs it
  channel     \* session id -> the results written to its channel, in order

vars == <<entry, authToken, codaApiToken, proc, clientConfig, store, servers,
          sessions, last, posts, inv, channel>>

SessionIds == 1 .. MaxSessions
ServerIds == 0 .. MaxSessions
\* the message ids this run has room for
InvIds == DOMAIN inv

NoSession == [state |-> "none", server |-> 0]
NoPost == [session |-> 0, state |-> "none", status |-> 0]
NoInv == [pc |-> "none", session |-> 0, tool |-> "", args |-> Undefined,
          calls |-> <<>>, outs |-> <<>>]

\* `${v}` of undefined | string
TemplateString(v) == IF v = Undefined THEN <<"undefined">> ELSE v.s

\* export const config = { codaApiToken: process.env.CODA_API_TOKEN! }
config(env) == [codaApiToken |-> env]

\* config.codaApiToken, or config.apiKey, which config does not have
Credential(e, env) ==
  IF e \in {"part_001", "part_003", "part_005"} THEN Undefined
  ELSE config(env).codaApiToken

\* client.setConfig({ baseURL, headers: { Authorization: `Bearer ${...}` } });
\* writes counts the calls of setConfig
NoConfig == [baseURL |-> "", Authorization |-> <<>>, writes |-> 0]
setConfig(cfg, e, env) ==
  [baseURL |-> "https://coda.io/apis/v1",
   Authorization |-> <<"Bearer ">> \o TemplateString(Credential(e, env)),
   writes |-> cfg.writes + 1]

\* the Express apps call client.setConfig in the handler of the SSE URL, the
\* serverless functions when the module is loaded
SetsConfigPerRequest(e) == e \in Express

\* index.ts checks the credential when it starts and exits without it
StartupFails(e, env) == e = "index.ts" /\ env = Undefined

\* index.ts connects the module-level server to the stdio transport at
\* startup: session 1 is the stdio session
StdioConnected(e, s) == e = "index.ts" /\ s = 1

\* the state once the entry-point module is loaded, with room for n messages
Loaded(n) ==
  /\ proc = IF StartupFails(entry, codaApiToken) THEN "failed" ELSE "running"
  /\ clientConfig = IF SetsConfigPerRequest(entry) \/ proc = "failed" THEN NoConfig
                    ELSE setConfig(NoConfig, entry, codaApiToken)
  /\ sessions = [s \in SessionIds |->
                   IF StdioConnected(entry, s) /\ proc = "running"
                   THEN [state |-> "open", server |-> 0] ELSE NoSession]
  /\ servers = [k \in ServerIds |->
                  IF k = 0 /\ StdioConnected(entry, 1) /\ proc = "running" THEN 1 ELSE 0]
  /\ last = [req |-> NoRequest, status |-> 0, body |-> [none |-> TRUE]]
  /\ posts = [m \in 1 .. n |-> NoPost]
  /\ inv = [m \in 1 .. n |-> NoInv]
  /\ channel = [s \in SessionIds |-> <<>>]

Init ==
  /\ entry \in EntryPoints
  /\ authToken \in {Undefined, Secret}
  /\ codaApiToken \in {Undefined, ApiKey}
  /\ store = <<>>
  /\ Loaded(MaxInv)

\* ---------------------------------------------------------- HTTP responses
Response(status, body) == [k |-> "response", status |-> status, body |-> body]
\* the request goes on to `new SSEServerTransport(...)` and `connect`
OpenChannel == [k |-> "sse"]
\* the request falls through to the next statement
Pass == [k |-> "pass"]

HealthBody == [status |-> "ok", server |-> "coda-mcp", version |-> "1.5.1"]

\* the MCP_AUTH_TOKEN check of part_001, part_002 and part_005
VerifyToken(expectedToken, req) ==
  IF Truthy(expectedToken)
  THEN IF ~Truthy(req.token)
       THEN Response(401, [error |-> "Unauthorized: Missing token query parameter"])
       ELSE IF req.token # expectedToken
            THEN Response(401, [error |-> "Unauthorized: Invalid token"])
            ELSE Pass
  ELSE Pass

\* the health test of each serverless function: part_003 compares the whole
\* req.url, query string included; the others strip the query string first
IsHealthUrl(e, req) ==
  IF e = "part_003" THEN req.route = "health" /\ req.token = Undefined
  ELSE req.route = "health"

\* export default async function handler(req, res) of part_000 .. part_003,
\* up to the point where it answers or opens the SSE channel
handlerOutcome(e, req) ==
  IF req.method = "OPTIONS" THEN Response(200, [empty |-> TRUE])
  ELSE LET auth == IF ChecksToken(e) THEN VerifyToken(authToken, req) ELSE Pass
       IN IF auth # Pass THEN auth
          ELSE IF req.method = "GET"
               THEN IF e = "part_000" /\ req.route = "register"
                    THEN Response(200, [client_id |-> "authless"])
                    ELSE IF IsHealthUrl(e, req) THEN Response(200, HealthBody)
                    ELSE OpenChannel
          ELSE IF req.method = "POST"
               THEN IF e = "part_000" /\ req.route = "token"
                    THEN Response(200, [access_token |-> "authless_mode"])
                    ELSE Response(200, [text |-> "OK"])
          ELSE Response(405, [error |-> "Method not allowed"])

\* ------------------------------------------------------------------ actions
\* server.connect(transport): the server object keeps the transport it was
\* last connected to and sends on it
connect(srvs, k, s) == [srvs EXCEPT ![k] = s]

\* what becomes of the request and of the process when the promise of an
\* async handler rejects and nothing catches it: the framework answers 500,
\* or the request is left unanswered and the runtime either only warns about
\* the unhandled rejection or ends the process
UnhandledRejection ==
  { [status |-> 500, proc |-> "running"],
    [status |-> 0, proc |-> "running"],
    [status |-> 0, proc |-> "crashed"] }

\* the statements of a handler from client.setConfig (where the handler has
\* one) to `await server.connect(transport)`; connected tells whether the
\* promise of connect resolves (if it does not, the server object keeps the
\* transport s it was given but s never becomes a session).  No handler
\* wraps them in try/catch.
OpenSSE(req) ==
  \E s \in SessionIds, connected \in BOOLEAN :
    /\ sessions[s].state = "none"
    /\ \A t \in SessionIds : t < s => sessions[t].state # "none"
    /\ clientConfig' = IF SetsConfigPerRequest(entry)
                       THEN setConfig(clientConfig, entry, codaApiToken)
                       ELSE clientConfig
    /\ LET k == IF SharedServer(entry) THEN 0 ELSE s
       IN IF connected
          THEN /\ sessions' = [sessions EXCEPT ![s] = [state |-> "open", server |-> k]]
               /\ servers' = connect(servers, k, s)
               /\ last' = [req |-> req, status |-> 200, body |-> [sse |-> s]]
               /\ proc' = proc
          ELSE /\ sessions' = [sessions EXCEPT ![s] = [state |-> "failed", server |-> k]]
               /\ servers' = connect(servers, k, s)
               /\ \E r \in UnhandledRejection :
                    /\ last' = [req |-> req, status |-> r.status,
                                body |-> [none |-> TRUE]]
                    /\ proc' = r.proc

Answer(req, r) == last' = [req |-> req, status |-> r.status, body |-> r.body]

\* a POST of the messages URL carries the next tool-invocation message m of
\* the client of a session s, which is open or already closed; a POST that
\* is refused (401) leaves the message with the client
PostedMessage(req, status) ==
  IF req.method = "POST" /\ req.route = "messages" /\ status = 200
  THEN \E m \in InvIds, s \in SessionIds :
         /\ posts[m].status = 0
         /\ \A j \in InvIds : j < m => posts[j].status # 0
         /\ sessions[s].state \in {"open", "closed"}
         /\ posts' = [posts EXCEPT ![m] = [session |-> s, state |-> sessions[s].state,
                                           status |-> status]]
  ELSE UNCHANGED posts

\* the serverless function
handler(req) ==
  /\ entry \in Serverless
  /\ proc = "running"
  /\ LET r == handlerOutcome(entry, req)
     IN IF r = OpenChannel
        THEN OpenSSE(req) /\ UNCHANGED posts
        ELSE Answer(req, r) /\ PostedMessage(req, r.status)
                            /\ UNCHANGED <<servers, sessions, proc, clientConfig>>
  /\ UNCHANGED <<entry, authToken, codaApiToken, store, inv, channel>>

\* app.get("/health")
app_get_health(token) ==
  /\ entry \in Express
  /\ proc = "running"
  /\ Answer([method |-> "GET", route |-> "health", token |-> token],
            Response(200, HealthBody))
  /\ UNCHANGED <<entry, authToken, codaApiToken, proc, clientConfig, store,
               servers, sessions, posts, inv, channel>>

\* app.get("/") of http.ts and part_004, app.get("/sse") of part_005
app_get_sse(token) ==
  /\ entry \in Express
  /\ proc = "running"
  /\ LET req == [method |-> "GET", route |-> "sse", token |-> token]
         auth == IF ChecksToken(entry) THEN VerifyToken(authToken, req) ELSE Pass
     IN IF auth # Pass
        THEN Answer(req, auth) /\ UNCHANGED <<servers, sessions, proc, clientConfig>>
        ELSE OpenSSE(req)
  /\ UNCHANGED <<entry, authToken, codaApiToken, store, posts, inv, channel>>

\* app.post("/messages")
app_post_messages(token) ==
  /\ entry \in Express
  /\ proc = "running"
  /\ LET req == [method |-> "POST", route |-> "messages", token |-> token]
     IN Answer(req, Response(200, [empty |-> TRUE])) /\ PostedMessage(req, 200)
  /\ UNCHANGED <<entry, authToken, codaApiToken, proc, clientConfig, store,
               servers, sessions, inv, channel>>

Disconnect_reuses(s) ==
  /\ entry # "index.ts"
  /\ proc = "running"
  /\ sessions[s].state = "open"
  /\ sessions' = [sessions EXCEPT ![s].state = "none"]
  /\ servers' = [servers EXCEPT ![sessions[s].server] = 0]
  /\ UNCHANGED <<entry, authToken, codaApiToken, proc, clientConfig, store,
                 last, posts, inv, channel>>

\* the client closes its event stream (the handler registered with
\* req.on("close") only logs): the transport closes and the server object it
\* was connected to forgets the transport it sends on
Disconnect(s) ==
  /\ entry # "index.ts"
  /\ proc = "running"
  /\ sessions[s].state = "open"
  /\ sessions' = [sessions EXCEPT ![s].state = "closed"]
  /\ servers' = [servers EXCEPT ![sessions[s].server] = 0]
  /\ UNCHANGED <<entry, authToken, codaApiToken, proc, clientConfig, store,
               last, posts, inv, channel>>

Emit_oneid(k, m, r) ==
  IF servers[k] = 0 THEN UNCHANGED channel
  ELSE channel' = [channel EXCEPT ![servers[k]] = Append(@, [id |-> 1, result |-> r])]

\* the server object k writes result r of message m on its transport
Emit(k, m, r) ==
  IF servers[k] = 0 THEN UNCHANGED channel
  ELSE channel' = [channel EXCEPT ![servers[k]] = Append(@, [id |-> m, result |-> r])]

\* the registry's answer to a request it does not hand to a handler
McpError(text) ==
  [content |-> <<[type |-> "text", text |-> text]>>, isError |-> TRUE]

\* tools/call on a registry: look the tool up, parse the arguments with its
\* schema, then run the handler up to its first await
Dispatch(e, tool, a) ==
  IF tool \notin RegisteredTools(e)
  THEN Return(McpError(<<"Tool ", tool, " not found">>))
  ELSE IF ~Validate(tool, a)
       THEN Return(McpError(<<"Invalid arguments for tool ", tool>>))
  ELSE Handler(tool, a, 0, NoOutcome)

\* one step of the invocation m on session s: the handler awaits a call,
\* returns a result, or throws.  calls are the remote calls it has issued and
\* outs the outcomes it has awaited.
Advance(m, s, tool, a, calls, outs, step) ==
  LET at(pc, cs) == [pc |-> pc, session |-> s, tool |-> tool, args |-> a,
                     calls |-> cs, outs |-> outs]
  IN IF step.k = "call"
     THEN /\ inv' = [inv EXCEPT ![m] = at("await", Append(calls, step.call))]
          /\ UNCHANGED channel
     ELSE IF step.k = "return"
     THEN /\ inv' = [inv EXCEPT ![m] = at("done", calls)]
          /\ Emit(sessions[s].server, m, step.result)
     ELSE /\ inv' = [inv EXCEPT ![m] = at("threw", calls)]
          /\ UNCHANGED channel

\* the stdio transport reads a tools/call message from stdin
onmessage(m, s, tool, a) ==
  /\ entry = "index.ts"
  /\ proc = "running"
  /\ sessions[s].state = "open"
  /\ inv[m].pc = "none"
  /\ \A j \in InvIds : j < m => inv[j].pc # "none"
  /\ Advance(m, s, tool, a, <<>>, <<>>, Dispatch(entry, tool, a))
  /\ UNCHANGED <<entry, authToken, codaApiToken, proc, clientConfig, store,
               servers, sessions, last, posts>>

\* the remote call the invocation m awaits settles and its handler resumes
RemoteSettles(m, out) ==
  /\ proc = "running"
  /\ inv[m].pc = "await"
  /\ out \in Outcomes(inv[m].calls[Len(inv[m].calls)])
  /\ LET outs == Append(inv[m].outs, out)
     IN Advance(m, inv[m].session, inv[m].tool, inv[m].args, inv[m].calls, outs,
                Handler(inv[m].tool, inv[m].args, Len(outs), out))
  /\ UNCHANGED <<entry, authToken, codaApiToken, proc, clientConfig, store,
               servers, sessions, last, posts>>

AllOutcomes ==
  UNION {Outcomes([op |-> o]) : o \in {"getPageContent", "listDocs", "listPages",
                                       "createPage", "updatePage", "resolveBrowserLink"}}

Next ==
  \/ \E req \in Requests : handler(req)
  \/ \E token \in QueryTokens : app_get_health(token)
  \/ \E token \in QueryTokens : app_get_sse(token)
  \/ \E token \in QueryTokens : app_post_messages(token)
  \/ \E s \in SessionIds : Disconnect(s)
  \/ \E m \in InvIds, s \in SessionIds :
       /\ StdioConnected(entry, s) /\ inv[m].pc = "none"
       /\ \E tool \in ClientTools : \E a \in ArgsOf(tool) : onmessage(m, s, tool, a)
  \/ \E m \in InvIds :
       inv[m].pc = "await" /\ \E out \in AllOutcomes : RemoteSettles(m, out)

Spec == Init /\ [][Next]_vars

\* ------------------------------------------------------- stub remote store
\* The stdio entry point served by a stub RemoteDocClient that holds the
\* content of one page (document "x", page "x") and never fails.
MaxStubInv == 2

StubTools == {"coda_get_page_content", "coda_replace_page_content", "coda_peek_page"}
StubContents == { <<"z">>, <<"a", "\n", "b", "\n", "c", "\n", "d">> }
StubArgs(tool) ==
  CASE tool = "coda_get_page_content" ->
         {[docId |-> Str(<<"x">>), pageIdOrName |-> Str(<<"x">>)]}
    [] tool = "coda_replace_page_content" ->
         [docId : {Str(<<"x">>)}, pageIdOrName : {Str(<<"x">>)},
          content : {Str(<<>>), Str(<<"t">>)}]
    [] tool = "coda_peek_page" ->
         [docId : {Str(<<"x">>)}, pageIdOrName : {Str(<<"x">>)},
          numLines : {Num(1, 1), Num(2, 1)}]

\* what the stub answers to a call while it holds the content held
StubOutcome(call, held) ==
  IF call.op = "getPageContent" THEN [kind |-> "ok", data |-> Str(held)]
  ELSE [kind |-> "ok", data |-> Obj(<<call.op, "Response">>)]

\* what the stub holds after the call: an update with a contentUpdate
\* overwrites the content in mode "replace" and extends it in mode "append"
StubStore(call, held) ==
  IF call.op = "updatePage" /\ "contentUpdate" \in DOMAIN call.body
  THEN IF call.body.contentUpdate.insertionMode = "replace"
       THEN call.body.contentUpdate.content.s
       ELSE held \o call.body.contentUpdate.content.s
  ELSE held

StubInit ==
  /\ entry = "index.ts"
  /\ authToken = Undefined
  /\ codaApiToken = ApiKey
  /\ store \in StubContents
  /\ Loaded(MaxStubInv)

\* the stub answers the call the invocation m awaits and its handler resumes
StubSettles(m) ==
  /\ proc = "running"
  /\ inv[m].pc = "await"
  /\ LET call == inv[m].calls[Len(inv[m].calls)]
         out == StubOutcome(call, store)
         outs == Append(inv[m].outs, out)
     IN /\ Advance(m, inv[m].session, inv[m].tool, inv[m].args, inv[m].calls, outs,
                   Handler(inv[m].tool, inv[m].args, Len(outs), out))
        /\ store' = StubStore(call, store)
  /\ UNCHANGED <<entry, authToken, codaApiToken, proc, clientConfig,
                 servers, sessions, last, posts>>

StubNext ==
  \/ \E m \in InvIds, tool \in StubTools :
       \E a \in StubArgs(tool) : onmessage(m, 1, tool, a)
  \/ \E m \in InvIds : StubSettles(m)

StubSpec == StubInit /\ [][StubNext]_vars

\* =================================================================== claims
\* where the result of message m was written: <<session, position>>
Emitted(m) ==
  UNION { { <<s, i>> : i \in {j \in DOMAIN channel[s] : channel[s][j].id = m} }
          : s \in SessionIds }
ResultAt(e) == channel[e[1]][e[2]].result

\* the invocation m was handed to the handler of a registered tool
ReachedHandler(m) ==
  /\ inv[m].pc # "none"
  /\ inv[m].tool \in RegisteredTools(entry)
  /\ Validate(inv[m].tool, inv[m].args)

\* C1: an invocation that reaches its handler never ends in an escaped
\* exception; it has no result while a remote call is awaited and exactly one
\* once the handler is done, and that result holds exactly one content item,
\* of type text, whatever the remote calls did.
C1_ExactlyOneResult ==
  \A m \in InvIds :
    ReachedHandler(m) =>
      /\ inv[m].pc \in {"await", "done"}
      /\ Cardinality(Emitted(m)) = (IF inv[m].pc = "done" THEN 1 ELSE 0)
      /\ \A e \in Emitted(m) :
           /\ Len(ResultAt(e).content) = 1
           /\ ResultAt(e).content[1].type = "text"
           /\ ResultAt(e).isError \in BOOLEAN

\* the content read of get_page_content returned no content and the handler
\* answered with its error result
C1_Witness ==
  \E m \in InvIds :
    /\ inv[m].pc = "done"
    /\ inv[m].tool = "coda_get_page_content"
    /\ inv[m].outs = <<[kind |-> "ok", data |-> Undefined]>>
    /\ \E e \in Emitted(m) :
         ResultAt(e) = FailedTo("get page content", NewError(<<"Unknown error occurred">>))

\* the operation name the claim gives for each tool
C3_Operation(tool) ==
  CASE tool = "coda_list_documents" -> "list documents"
    [] tool = "coda_list_pages" -> "list pages"
    [] tool = "coda_create_page" -> "create page"
    [] tool = "coda_get_page_content" -> "get page content"
    [] tool = "coda_replace_page_content" -> "replace page content"
    [] tool = "coda_append_page_content" -> "append page content"
    [] tool = "coda_duplicate_page" -> "duplicate page"
    [] tool = "coda_rename_page" -> "rename page"
    [] tool = "coda_peek_page" -> "peek page"
    [] tool = "coda_resolve_link" -> "resolve link"

\* C3: when the last remote call of an invocation threw, the handler is done
\* and its result has isError = TRUE and the text "Failed to <operation>: "
\* with the tool's own operation name, followed by the description of the
\* thrown cause.
C3_FailedToPrefix ==
  \A m \in InvIds :
    (/\ ReachedHandler(m)
     /\ inv[m].outs # <<>>
     /\ inv[m].outs[Len(inv[m].outs)].kind = "throw") =>
      LET cause == inv[m].outs[Len(inv[m].outs)].error
      IN /\ inv[m].pc = "done"
         /\ Emitted(m) # {}
         /\ \A e \in Emitted(m) :
              /\ ResultAt(e).isError = TRUE
              /\ ResultAt(e).content[1].text =
                   <<"Failed to ", C3_Operation(inv[m].tool), ": ", cause.name, ": ">>
                     \o cause.message

\* rename_page's update was rejected by the remote side
C3_Witness ==
  \E m \in InvIds :
    /\ inv[m].pc = "done"
    /\ inv[m].tool = "coda_rename_page"
    /\ inv[m].outs # <<>>
    /\ inv[m].outs[1].kind = "throw"
    /\ Emitted(m) # {}

\* the fields the tool table requires, and the fields that are counts
C4_Required(tool) ==
  CASE tool = "coda_list_documents" -> {}
    [] tool = "coda_list_pages" -> {"docId"}
    [] tool = "coda_create_page" -> {"docId", "name"}
    [] tool = "coda_get_page_content" -> {"docId", "pageIdOrName"}
    [] tool = "coda_replace_page_content" -> {"docId", "pageIdOrName", "content"}
    [] tool = "coda_append_page_content" -> {"docId", "pageIdOrName", "content"}
    [] tool = "coda_duplicate_page" -> {"docId", "pageIdOrName", "newName"}
    [] tool = "coda_rename_page" -> {"docId", "pageIdOrName", "newName"}
    [] tool = "coda_peek_page" -> {"docId", "pageIdOrName", "numLines"}
    [] tool = "coda_resolve_link" -> {"url"}
C4_Counts == {"limit", "numLines"}

\* the arguments a violate the input schema of the tool, in the claim's words
C4_Violates(tool, a) ==
  \E f \in DOMAIN a :
    \/ f \in C4_Required(tool) /\ a[f] = Undefined
    \/ a[f] # Undefined /\ a[f].t # (IF f \in C4_Counts THEN "number" ELSE "string")
    \/ /\ f \in C4_Counts
       /\ a[f] # Undefined
       /\ a[f].t = "number"
       /\ (a[f].n <= 0 \/ a[f].n % a[f].d # 0)

\* C4: an invocation of a registered tool whose arguments violate the tool's
\* schema is answered at once with exactly one isError result and issues no
\* remote call at all.
C4_InvalidNeverReachesHandler ==
  \A m \in InvIds :
    (/\ inv[m].pc # "none"
     /\ inv[m].tool \in RegisteredTools(entry)
     /\ C4_Violates(inv[m].tool, inv[m].args)) =>
      /\ inv[m].pc = "done"
      /\ inv[m].calls = <<>>
      /\ Cardinality(Emitted(m)) = 1
      /\ \A e \in Emitted(m) : ResultAt(e).isError = TRUE

\* peek_page with numLines = 3/2 and list_pages with limit = 0 were rejected
C4_Witness ==
  \E m \in InvIds :
    /\ inv[m].pc = "done"
    /\ inv[m].calls = <<>>
    /\ \/ /\ inv[m].tool = "coda_peek_page"
          /\ inv[m].args = [docId |-> Str(<<"x">>), pageIdOrName |-> Str(<<"x">>),
                            numLines |-> Num(3, 2)]
       \/ /\ inv[m].tool = "coda_list_pages"
          /\ inv[m].args = [docId |-> Str(<<"x">>), limit |-> Num(0, 1),
                            nextPageToken |-> Undefined]
    /\ \E e \in Emitted(m) : ResultAt(e).isError = TRUE

\* C2: on the HTTP entry points, a message POSTed to the messages URL for an
\* open session and answered 200 has been handed to the registry of that
\* session (the invocation exists, so that it can be answered).
C2_Original ==
  \A m \in InvIds :
    (/\ entry \in Express \cup Serverless
     /\ posts[m].status = 200
     /\ posts[m].state = "open") =>
      /\ inv[m].pc # "none"
      /\ inv[m].session = posts[m].session

\* C5: the registry of every open session writes its results on the channel
\* of that session, also on the entry points that connect one module-level
\* server to every transport.
C5_Original ==
  \A s \in SessionIds :
    sessions[s].state = "open" => servers[sessions[s].server] = s

\* C6: no two sessions that are open at the same time are attached to the
\* same server object, and on the serverless entry points no two channel-open
\* requests were given the same server object.
C6_Original ==
  \A s, t \in SessionIds :
    (/\ s # t
     /\ sessions[s].state # "none"
     /\ sessions[t].state # "none"
     /\ \/ sessions[s].state = "open" /\ sessions[t].state = "open"
        \/ entry \in Serverless) =>
      sessions[s].server # sessions[t].server

\* C7: with MCP_AUTH_TOKEN configured, a GET of the SSE URL whose token is
\* missing or differs from it is answered 401 (and so opens no channel);
\* with MCP_AUTH_TOKEN unset, every GET of the SSE URL opens a channel.
C7_Original ==
  (last.req.method = "GET" /\ last.req.route = "sse") =>
    IF authToken = Undefined
    THEN last.status = 200 /\ "sse" \in DOMAIN last.body
    ELSE last.req.token # authToken => last.status = 401

\* C8: every GET of the health URL is answered 200 with the health body (and
\* so opens no channel), whatever MCP_AUTH_TOKEN is and whether or not the
\* request carries a token.
C8_Original ==
  (last.req.method = "GET" /\ last.req.route = "health") =>
    last.status = 200 /\ last.body = HealthBody

\* C9: list_pages with a nextPageToken supplied calls listPages with limit
\* undefined and pageToken equal to the supplied token, whatever limit is.
C9_Original ==
  \A m \in InvIds :
    (/\ ReachedHandler(m)
     /\ inv[m].tool = "coda_list_pages"
     /\ inv[m].args.nextPageToken # Undefined) =>
      /\ inv[m].calls[1].op = "listPages"
      /\ inv[m].calls[1].limit = Undefined
      /\ inv[m].calls[1].pageToken = inv[m].args.nextPageToken

\* C10: duplicate_page issues createPage only as its last call and only after
\* a content read that succeeded; a content read that failed (threw, or
\* produced no content) is followed by no createPage call.
C10_Original ==
  \A m \in InvIds :
    (ReachedHandler(m) /\ inv[m].tool = "coda_duplicate_page") =>
      \A i \in DOMAIN inv[m].calls :
        inv[m].calls[i].op = "createPage" =>
          /\ i = Len(inv[m].calls)
          /\ i = 2
          /\ inv[m].outs[1].kind = "ok"
          /\ inv[m].outs[1].data # Undefined

\* C11: with the credential absent from the environment no session is ever
\* opened and no remote call is ever issued (the process has failed at
\* startup instead).
C11_Original ==
  codaApiToken = Undefined =>
    /\ \A s \in SessionIds : sessions[s].state # "open"
    /\ \A m \in InvIds : inv[m].calls = <<>>

\* C12: while a session is open the client configuration has been written
\* exactly once: it was written before the first session was accepted and
\* not again since.
C12_Original ==
  (\E s \in SessionIds : sessions[s].state = "open") => clientConfig.writes = 1

\* the result the handler of message m computes from the arguments of m and
\* the outcomes of the remote calls of m
C13_OwnResult(m) ==
  Handler(inv[m].tool, inv[m].args, Len(inv[m].outs),
          inv[m].outs[Len(inv[m].outs)]).result

C14_Rank(state) ==
  CASE state = "none" -> 0 [] state = "open" -> 1 [] state \in {"closed", "failed"} -> 2

C14_Step ==
  /\ \A s \in SessionIds :
       /\ C14_Rank(sessions'[s].state) >= C14_Rank(sessions[s].state)
       /\ sessions[s].state = "closed" =>
            /\ channel'[s] = channel[s]
            /\ \A m \in InvIds : inv'[m].session = s => inv'[m] = inv[m]
  /\ \A m \in InvIds :
       posts'[m].state = "closed" =>
         /\ inv'[m].pc = "none"
         /\ \A s \in SessionIds : \A i \in DOMAIN channel'[s] : channel'[s][i].id # m

C15_Original ==
  /\ proc \in {"running", "failed"}
  /\ proc = "failed" => last.req = NoRequest

\* C16: the registry of the entry point holds exactly the ten tools of the
\* README.
C16_Original == RegisteredTools(entry) = ToolNames

\* C17: create_page with content omitted issues one createPage call whose
\* page body is a canvas in markdown format with the one-space string as its
\* content.
C17_SingleSpace ==
  \A m \in InvIds :
    (/\ ReachedHandler(m)
     /\ inv[m].tool = "coda_create_page"
     /\ inv[m].args.content = Undefined) =>
      /\ Len(inv[m].calls) = 1
      /\ inv[m].calls[1].op = "createPage"
      /\ "pageContent" \in DOMAIN inv[m].calls[1]
      /\ inv[m].calls[1].pageContent =
           [type |-> "canvas",
            canvasContent |-> [format |-> "markdown", content |-> Str(<<" ">>)]]
      /\ Len(inv[m].calls[1].pageContent.canvasContent.content.s) = 1

\* create_page was called without content and its createPage call succeeded
C17_Witness ==
  \E m \in InvIds :
    /\ inv[m].pc = "done"
    /\ inv[m].tool = "coda_create_page"
    /\ inv[m].args.content = Undefined
    /\ inv[m].calls # <<>>
    /\ inv[m].outs[1].kind = "ok"

\* the first min(n, number of lines of c) lines of c, joined with "\n"
C18_FirstLines(c, n) ==
  LET lines == Split(c)
  IN Join(SubSeq(lines, 1, Min(n, Len(lines))))

\* C18: whenever the content read of a peek_page invocation yielded a page
\* content c, the invocation is done, the content read is the only remote
\* call it issued, and its result is the non-error text made of the first
\* min(numLines, number of lines of c) lines of c joined with "\n".
C18_Original ==
  \A m \in InvIds :
    (/\ ReachedHandler(m)
     /\ inv[m].tool = "coda_peek_page"
     /\ inv[m].outs # <<>>
     /\ inv[m].outs[1].kind = "ok"
     /\ inv[m].outs[1].data # Undefined) =>
      /\ inv[m].pc = "done"
      /\ Len(inv[m].calls) = 1
      /\ inv[m].calls[1].op = "getPageContent"
      /\ \A e \in Emitted(m) :
           ResultAt(e) = TextResult(C18_FirstLines(inv[m].outs[1].data.s,
                                                   inv[m].args.numLines.n))

\* C19: list_pages called with neither limit nor nextPageToken asks
\* listPages for 25 pages.
C19_Original ==
  \A m \in InvIds :
    (/\ ReachedHandler(m)
     /\ inv[m].tool = "coda_list_pages"
     /\ inv[m].args.limit = Undefined
     /\ inv[m].args.nextPageToken = Undefined) =>
      /\ inv[m].calls[1].op = "listPages"
      /\ inv[m].calls[1].limit = Num(25, 1)

\* the results on the stdio channel, the invocation behind each, and whether
\* the invocation at position i is a replace / any content update
C20_Inv(i) == inv[channel[1][i].id]
C20_IsReplace(i) == C20_Inv(i).tool = "coda_replace_page_content"
C20_IsUpdate(i) ==
  C20_Inv(i).tool \in {"coda_replace_page_content", "coda_append_page_content"}

\* C20: against the stub store, every replace_page_content issues exactly
\* one call, an update in mode "replace" carrying the given content; a
\* get_page_content answered after a replace(t), with no other content
\* update answered in between, returns exactly t whatever the page held at
\* first; and while the last content update answered is a replace(t) the
\* store holds t, so that repeating the replace changes nothing.
C20_RoundTrip ==
  LET ch == channel[1]
  IN /\ \A i \in DOMAIN ch :
          C20_IsReplace(i) =>
            /\ Len(C20_Inv(i).calls) = 1
            /\ C20_Inv(i).calls[1].op = "updatePage"
            /\ C20_Inv(i).calls[1].body =
                 [contentUpdate |->
                    [insertionMode |-> "replace", format |-> "markdown",
                     content |-> C20_Inv(i).args.content]]
            /\ ch[i].result.isError = FALSE
     /\ \A i, j \in DOMAIN ch :
          (/\ i < j
           /\ C20_IsReplace(i)
           /\ \A k \in DOMAIN ch : (i < k /\ k < j) => ~C20_IsUpdate(k)) =>
            (C20_Inv(j).tool = "coda_get_page_content" =>
               ch[j].result = TextResult(C20_Inv(i).args.content.s))
     /\ \A i \in DOMAIN ch :
          (C20_IsReplace(i) /\ \A k \in DOMAIN ch : k > i => ~C20_IsUpdate(k)) =>
            store = C20_Inv(i).args.content.s

\* replace_page_content("t") was answered, then get_page_content returned "t"
\* from a store that held something else at first
C20_Witness ==
  /\ Len(channel[1]) = 2
  /\ C20_IsReplace(1)
  /\ C20_Inv(1).args.content = Str(<<"t">>)
  /\ C20_Inv(2).tool = "coda_get_page_content"
  /\ channel[1][2].result = TextResult(<<"t">>)
  /\ store = <<"t">>

\* C21: every rename_page invocation that reached its handler has issued
\* exactly one remote call, an update whose body has the one member name,
\* equal to the new name; applied to a store of page contents that update
\* leaves every content as it was, whether the remote side then accepts or
\* rejects it.
C21_NameOnly ==
  \A m \in InvIds :
    (ReachedHandler(m) /\ inv[m].tool = "coda_rename_page") =>
      /\ Len(inv[m].calls) = 1
      /\ inv[m].calls[1].op = "updatePage"
      /\ DOMAIN inv[m].calls[1].body = {"name"}
      /\ inv[m].calls[1].body.name = inv[m].args.newName
      /\ \A held \in PageContents \cup StubContents :
           StubStore(inv[m].calls[1], held) = held

\* one rename_page was accepted by the remote side
C21_Witness ==
  \E m \in InvIds :
    /\ inv[m].pc = "done"
    /\ inv[m].tool = "coda_rename_page"
    /\ Len(inv[m].calls) = 1
    /\ inv[m].outs # <<>>
    /\ inv[m].outs[1].kind = "ok"
    /\ \E e \in Emitted(m) : ResultAt(e).isError = FALSE

\* C22: the listPages call of a list_pages invocation never carries both a
\* defined limit and a defined pageToken.
C22_Original ==
  \A m \in InvIds :
    (/\ ReachedHandler(m)
     /\ inv[m].tool = "coda_list_pages") =>
      \A i \in DOMAIN inv[m].calls :
        inv[m].calls[i].limit = Undefined \/ inv[m].calls[i].pageToken = Undefined

\* C23: the content of the createPage call of a create_page invocation is
\* a string of at least one character.
C23_Original ==
  \A m \in InvIds :
    (/\ ReachedHandler(m)
     /\ inv[m].tool = "coda_create_page") =>
      \A i \in DOMAIN inv[m].calls :
        LET content == inv[m].calls[i].pageContent.canvasContent.content
        IN content # Undefined /\ content.t = "string" /\ Len(content.s) > 0

\* C24: no createPage call of duplicate_page has an absent content; when
\* the content read returned undefined the invocation ends with an isError
\* result and without a createPage call; otherwise the content created is
\* the content read.
C24_Original ==
  \A m \in InvIds :
    (/\ ReachedHandler(m)
     /\ inv[m].tool = "coda_duplicate_page"
     /\ inv[m].outs # <<>>
     /\ inv[m].outs[1].kind = "ok") =>
      IF inv[m].outs[1].data = Undefined
      THEN /\ inv[m].pc = "done"
           /\ Len(inv[m].calls) = 1
           /\ \A e \in Emitted(m) : ResultAt(e).isError = TRUE
      ELSE /\ Len(inv[m].calls) = 2
           /\ inv[m].calls[2].op = "createPage"
           /\ inv[m].calls[2].pageContent.canvasContent.content = inv[m].outs[1].data

\* p is a prefix of the sequence c
C25_IsPrefix(p, c) == Len(p) <= Len(c) /\ SubSeq(c, 1, Len(p)) = p

\* C25: whenever the content read of a peek_page invocation yielded something
\* that get_page_content turns into a non-error result, peek_page is done
\* with a non-error result too, and the lines of its text are a prefix of
\* the lines of the content.
C25_Original ==
  \A m \in InvIds :
    (/\ ReachedHandler(m)
     /\ inv[m].tool = "coda_peek_page"
     /\ inv[m].outs # <<>>
     /\ ~coda_get_page_content(inv[m].args, 1, inv[m].outs[1]).result.isError) =>
      /\ inv[m].pc = "done"
      /\ \A e \in Emitted(m) :
           /\ ResultAt(e).isError = FALSE
           /\ C25_IsPrefix(Split(ResultAt(e).content[1].text),
                           Split(inv[m].outs[1].data.s))

====
